---------------------------- MODULE Spec2Model ----------------------------
(***************************************************************************)
(* The self-play data generator of AlphaZero/train/parallel/selfplay.py    *)
(* (class Selfplay, master session): the game launcher with its worker     *)
(* semaphore, the self-play units, the bounded data queue and its          *)
(* consumer, the model-update handler with the evaluator's read/write      *)
(* lock, and the handler that receives game data from remote sessions.     *)
(* With them: the update handler of a remote session, one connection of    *)
(* the remote transport, the batching evaluator the games submit to, and   *)
(* the mnk GameState of AlphaZero/env/mnk.py.                              *)
(***************************************************************************)
EXTENDS Integers, Sequences, FiniteSets, TLC

\* ------------------------------------------------------------ bounds
\* ext_config['num_worker']: the initial value of worker_lim.
NumWorker == 2
\* How many games the launcher's endless loop starts: in the pool
\* specifications, in the pipeline specification, in the pipeline
\* specification with fairness, in the scenario.
MaxGames == 3
PipeGames == 2
FairPipeGames == 1
ScenarioGames == 5
\* maxsize of the data queue.
Capacity == 2
\* How many model identifiers arrive on r_conn.
MaxUpdates == 1
\* How many connections the remote-data socket accepts.
MaxFrames == 2
\* The mnk game: board_height, board_width and k of the game configuration,
\* and how many stones are played.
board_height == 2
board_width == 2
game_config_k == 2
GameMoves == 3
\* board_width of a configuration with one row.
strip_width == 3
\* The evaluator: how many callers submit, and max_batch_size.
EvalCallers == 4
MaxBatch == 3
\* The transport of one connection: how many connections are made, the
\* model identifiers and the moves of a GameRecord that travel, and the most
\* bytes one client_connection.recv returns.
WireConns == 2
WireIds == 2
WireMoves == 2
RecvSize == 2
\* The same two counts while only the handler threads run.
BroadcastUpdates == 2
BroadcastFrames == 3

\* Addresses remote sessions connect from.
Addrs == {"a1", "a2"}
\* The address of the remote session whose handler thread is followed.
RemoteAddr == "a1"

Max(a, b) == IF a > b THEN a ELSE b
Units == 1..Max(MaxGames, Max(PipeGames, ScenarioGames))

\* The unit whose game raises in the scenario.
FailingUnits == {2}

\* The model the evaluator serves before the first load.
InitialModel == 0

VARIABLES
    worker_lim,         \* value of the semaphore self.worker_lim
    cnt,                \* the launcher's game counter
    pc,                 \* pc[u]: where unit u is in selfplay_wrapper
    seen,               \* seen[u]: the model that was active when u's game began
    rel,                \* rel[u]: how often u released its slot / its read lock
    rwlock,             \* nn_eval.rwlock: [readers, writer]
    model,              \* the evaluator's active model
    data_queue,         \* self.data_queue
    popped,             \* what the training loop has taken, in order
    r_conn,             \* identifiers in flight on the pipe self.r_conn
    emitted,            \* how many identifiers were sent so far
    upd,                \* model_update_handler: [pc, path, idx, size, exc]
    notified,           \* <<addr, path>> frames delivered to remote sessions
    remote_worker_reg,  \* self.remote_worker_reg, keys in insertion order
    rcv,                \* rcv_remote_data_handler: [pc, addr, image]
    frames,             \* connections accepted so far
    heard,              \* addresses a connection of which was drained to EOF
    loads,              \* the arguments of the handler's nn_eval.load calls, in order
    rupd,               \* remote_update_handler of a remote session: [pc, image, model]
    rframes,            \* connections its socket accepted so far
    sender,             \* the sending end of a connection: [pc, value, unsent]
    channel,            \* bytes written to the connection and not yet read
    receiver,           \* the accepting end: [pc, ultimate_buffer, final_image]
    accepted,           \* connections accepted so far
    delivered,          \* values handed on after deserializing, so far
    caller,             \* the contexts that call submit: [pc, input, result]
    pending,            \* the evaluator's pending requests: [caller, input]
    inflight,           \* the batch each flushing context has detached
    calls,              \* batched inference calls made so far
    game,               \* a GameState: its attributes
    raised              \* whether the last do_move raised IllegalMove

vars == <<worker_lim, cnt, pc, seen, rel, rwlock, model, data_queue, popped,
          r_conn, emitted, upd, notified, remote_worker_reg, rcv, frames,
          heard, loads, rupd, rframes,
          sender, channel, receiver, accepted, delivered,
          caller, pending, inflight, calls, game, raised>>

poolVars == <<worker_lim, cnt>>
unitVars == <<pc, seen, rel>>
updVars  == <<r_conn, emitted, upd, notified, loads>>
rcvVars  == <<remote_worker_reg, rcv, frames, heard>>
\* The handler thread of a remote session.
remoteVars == <<rupd, rframes>>
\* One connection of the remote transport, byte by byte.
wireVars == <<sender, channel, receiver, accepted, delivered>>
\* The batching evaluator and the contexts that submit to it.
evalVars == <<caller, pending, inflight, calls>>
\* One game of mnk.
gameVars == <<game, raised>>
\* What the master session's launcher, units and handlers leave alone.
extVars == <<remoteVars, wireVars, evalVars, gameVars>>
masterVars == <<poolVars, unitVars, rwlock, model, data_queue, popped,
                updVars, rcvVars>>

NoAddr == "none"
NoImage == [src |-> "none", id |-> 0]

\* ------------------------------------------------------------ records
\* game.get_history() of unit u.
GameData(u) == [src |-> "unit", id |-> u]
\* The image unpickled from the k-th connection the remote-data socket accepted.
RemoteData(k) == [src |-> "remote", id |-> k]

\* ------------------------------------------------------------ mnk
WHITE == -1
BLACK == 1
EMPTY == 0
history_length == 8
\* winner before the game has ended (None).
NoWinner == 2
\* The color argument left out (None).
NoColor == 0

\* np.zeros((height, width)): board[x][y] with x below height, y below width.
ZeroBoard(height, width) ==
    [x \in 0..(height - 1) |-> [y \in 0..(width - 1) |-> EMPTY]]

\* GameState.__init__ under a game configuration.
GameState(height, width, k_) ==
    [width |-> width,
     height |-> height,
     k |-> k_,
     board |-> ZeroBoard(height, width),
     current_player |-> BLACK,
     history |-> <<>>,
     board_history |-> [i \in 1..(history_length - 1) |-> ZeroBoard(height, width)],
     is_end_of_game |-> FALSE,
     winner |-> NoWinner,
     turns |-> 0]

_on_board(s, position) ==
    LET x == position[1]
        y == position[2]
    IN x >= 0 /\ y >= 0 /\ x < s.height /\ y < s.width

is_legal(s, action) ==
    IF ~_on_board(s, action) THEN FALSE
    ELSE IF s.board[action[1]][action[2]] # EMPTY THEN FALSE
    ELSE TRUE

\* One while loop of do_move: the stones of who from (xp, yp) on, step (dx, dy).
RECURSIVE Run(_, _, _, _, _, _, _)
Run(s, b, xp, yp, dx, dy, who) ==
    IF _on_board(s, <<xp, yp>>) /\ b[xp][yp] = who
    THEN 1 + Run(s, b, xp + dx, yp + dy, dx, dy, who)
    ELSE 0

\* GameState.get_winner
get_winner(s) == s.winner

\* A do_move that places the stone without counting the turn.
do_move_no_turns(s, action, color) ==
    LET c == IF color # NoColor THEN color ELSE s.current_player
    IN IF is_legal(s, action)
       THEN [raised |-> FALSE,
             state |-> [s EXCEPT !.board[action[1]][action[2]] = c,
                                 !.current_player = 0 - c,
                                 !.history = Append(s.history, action)]]
       ELSE [raised |-> TRUE, state |-> s]

\* A do_move that leaves the color of the call as the player to move
\* when the action is illegal.
do_move_no_reset(s, action, color) ==
    LET c == IF color # NoColor THEN color ELSE s.current_player
    IN IF is_legal(s, action)
       THEN [raised |-> FALSE, state |-> s]
       ELSE [raised |-> TRUE, state |-> [s EXCEPT !.current_player = c]]

\* GameState.do_move(action, color): the attributes after the call, and
\* whether it raised IllegalMove.
do_move(s, action, color) ==
    LET c == IF color # NoColor THEN color ELSE s.current_player
        x == action[1]
        y == action[2]
    IN IF is_legal(s, action)
       THEN LET b == [s.board EXCEPT ![x][y] = c]
                turns == s.turns + 1
                h_count == 1 + Run(s, b, x + 1, y, 1, 0, c) + Run(s, b, x - 1, y, -1, 0, c)
                v_count == 1 + Run(s, b, x, y + 1, 0, 1, c) + Run(s, b, x, y - 1, 0, -1, c)
                diag1_count ==
                    1 + Run(s, b, x + 1, y + 1, 1, 1, c) + Run(s, b, x - 1, y - 1, -1, -1, c)
                diag2_count ==
                    1 + Run(s, b, x + 1, y - 1, 1, -1, c) + Run(s, b, x - 1, y + 1, -1, 1, c)
                win == \/ h_count >= s.k
                       \/ v_count >= s.k
                       \/ diag1_count >= s.k
                       \/ diag2_count >= s.k
                full == turns = s.height * s.width
            IN [raised |-> FALSE,
                state |->
                  [s EXCEPT
                     !.board = b,
                     !.current_player = 0 - c,
                     !.history = Append(s.history, action),
                     !.board_history = Tail(Append(s.board_history, s.board)),
                     !.is_end_of_game = IF win \/ full THEN TRUE ELSE s.is_end_of_game,
                     !.winner = IF win THEN c ELSE IF full THEN 0 ELSE s.winner,
                     !.turns = turns]]
       ELSE LET reset_player == s.current_player
            IN [raised |-> TRUE,
                state |-> [s EXCEPT !.current_player = reset_player]]

\* The actions a caller passes: the cells, and positions off each edge.
Positions(s) ==
    {<<x, y>> : x \in 0..(s.height - 1), y \in 0..(s.width - 1)} \cup
    {<<0 - 1, 0>>, <<0, 0 - 1>>, <<s.height, 0>>, <<0, s.width>>}
Colors == {NoColor, BLACK, WHITE}

\* ------------------------------------------------------------ evaluator
Callers == 1..EvalCallers
\* The background timer, and the contexts that may perform a flush.
Timer == 0
Flushers == Callers \cup {Timer}
\* The states submitted for scoring.
States == {1, 2}

NoResult == <<>>
NoBatch == [busy |-> FALSE, reqs |-> <<>>]
Batch(reqs) == [busy |-> TRUE, reqs |-> reqs]

\* The policy/value pair the model computes for one state.
Score(x) == <<x + x, 0 - x>>
\* infer(stacked_states) -> (policy_batch, value_batch), row by row.
Infer(reqs) == [i \in 1..Len(reqs) |-> Score(reqs[i].input)]

\* ------------------------------------------------------------ frames
\* What travels on a connection: a model identifier or a GameRecord.
NoValue == [kind |-> "none", n |-> 0, moves |-> <<>>]
ModelId(i) == [kind |-> "id", n |-> i, moves |-> <<>>]
GameRecord(m) == [kind |-> "record", n |-> 0, moves |-> m]
Values ==
    {ModelId(i) : i \in 1..WireIds} \cup
    {GameRecord(m) : m \in UNION {[1..n -> 0..1] : n \in 0..WireMoves}}

\* pickle.dumps: a type mark, then the identifier, or the length and the moves.
Encode(v) ==
    IF v.kind = "id" THEN <<0, v.n>> ELSE <<1, Len(v.moves)>> \o v.moves

\* pickle.loads: NoValue stands for the exception on bytes that are no frame.
Decode(b) ==
    IF Len(b) = 2 /\ b[1] = 0 THEN ModelId(b[2])
    ELSE IF Len(b) >= 2 /\ b[1] = 1 /\ Len(b) = 2 + b[2]
         THEN GameRecord(SubSeq(b, 3, Len(b)))
         ELSE NoValue

\* ------------------------------------------------------------ rwlock
r_acquire_ok(l) == ~l.writer
r_acquire(l) == [l EXCEPT !.readers = @ + 1]
r_release(l) == [l EXCEPT !.readers = @ - 1]
w_acquire_ok(l) == ~l.writer /\ l.readers = 0
w_acquire(l) == [l EXCEPT !.writer = TRUE]
w_release(l) == [l EXCEPT !.writer = FALSE]

\* ------------------------------------------------------------ queue
\* put that never blocks.
put_unbounded(q) == TRUE
put_ok(q) == Len(q) < Capacity
\* put with the new item at the head.
put_lifo(q, x) == <<x>> \o q
put(q, x) == Append(q, x)
get_ok(q) == Len(q) > 0

\* ------------------------------------------------------------ Init
InitWith(g) ==
    /\ worker_lim = NumWorker
    /\ cnt = 0
    /\ pc = [u \in Units |-> "new"]
    /\ seen = [u \in Units |-> InitialModel]
    /\ rel = [u \in Units |-> [slot |-> 0, read |-> 0]]
    /\ rwlock = [readers |-> 0, writer |-> FALSE]
    /\ model = InitialModel
    /\ data_queue = <<>>
    /\ popped = <<>>
    /\ r_conn = <<>>
    /\ emitted = 0
    /\ upd = [pc |-> "recv", path |-> 0, idx |-> 0, size |-> 0, exc |-> "none"]
    /\ notified = <<>>
    /\ remote_worker_reg = <<>>
    /\ rcv = [pc |-> "accept", addr |-> NoAddr, image |-> NoImage]
    /\ frames = 0
    /\ heard = {}
    /\ loads = <<>>
    /\ rupd = [pc |-> "accept", image |-> 0, model |-> InitialModel]
    /\ rframes = 0
    /\ sender = [pc |-> "idle", value |-> NoValue, unsent |-> <<>>]
    /\ channel = <<>>
    /\ receiver = [pc |-> "accept", ultimate_buffer |-> <<>>, final_image |-> NoValue]
    /\ accepted = 0
    /\ delivered = 0
    /\ caller = [c \in Callers |-> [pc |-> "idle", input |-> 0, result |-> NoResult]]
    /\ pending = <<>>
    /\ inflight = [f \in Flushers |-> NoBatch]
    /\ calls = 0
    /\ game = g
    /\ raised = FALSE

\* The sessions, with a GameState of the configured board.
Init == InitWith(GameState(board_height, board_width, game_config_k))

\* The same with a GameState of a board of one row.
StripInit == InitWith(GameState(1, strip_width, game_config_k))

\* ------------------------------------------------------------ run
\* The launcher's loop without worker_lim.acquire().
LaunchNoAcquire(games) ==
    /\ cnt < games
    /\ pc' = [pc EXCEPT ![cnt + 1] = "r_acquire"]
    /\ cnt' = cnt + 1
    /\ UNCHANGED <<extVars, worker_lim, seen, rel, rwlock, model, data_queue, popped, updVars, rcvVars>>

\* One turn of the launcher's loop: acquire a slot, start the process.
Launch(games) ==
    /\ cnt < games
    /\ worker_lim > 0
    /\ worker_lim' = worker_lim - 1
    /\ pc' = [pc EXCEPT ![cnt + 1] = "r_acquire"]
    /\ cnt' = cnt + 1
    /\ UNCHANGED <<extVars, seen, rel, rwlock, model, data_queue, popped, updVars, rcvVars>>

\* ------------------------------------------------------------ selfplay_wrapper
\* selfplay_wrapper without rwlock.r_acquire().
StartGameNoLock(u) ==
    /\ pc[u] = "r_acquire"
    /\ seen' = [seen EXCEPT ![u] = model]
    /\ pc' = [pc EXCEPT ![u] = "play"]
    /\ UNCHANGED <<extVars, poolVars, rel, rwlock, model, data_queue, popped, updVars, rcvVars>>

\* selfplay_wrapper taking the read side without waiting for the writer.
StartGameIgnoreWriter(u) ==
    /\ pc[u] = "r_acquire"
    /\ rwlock' = r_acquire(rwlock)
    /\ seen' = [seen EXCEPT ![u] = model]
    /\ pc' = [pc EXCEPT ![u] = "play"]
    /\ UNCHANGED <<extVars, poolVars, rel, model, data_queue, popped, updVars, rcvVars>>

StartGame(u) ==
    /\ pc[u] = "r_acquire"
    /\ r_acquire_ok(rwlock)
    /\ rwlock' = r_acquire(rwlock)
    /\ seen' = [seen EXCEPT ![u] = model]
    /\ pc' = [pc EXCEPT ![u] = "play"]
    /\ UNCHANGED <<extVars, poolVars, rel, model, data_queue, popped, updVars, rcvVars>>

\* Game(...), game.start() and game.get_history() return.
FinishGame(u) ==
    /\ pc[u] = "play"
    /\ pc' = [pc EXCEPT ![u] = "put"]
    /\ UNCHANGED <<extVars, poolVars, seen, rel, rwlock, model, data_queue, popped, updVars, rcvVars>>

\* One of them raises: the process ends with the traceback.
FailGame(u) ==
    /\ pc[u] = "play"
    /\ pc' = [pc EXCEPT ![u] = "dead"]
    /\ UNCHANGED <<extVars, poolVars, seen, rel, rwlock, model, data_queue, popped, updVars, rcvVars>>

\* selfplay_wrapper that queues the history twice.
PutDataTwice(u) ==
    /\ pc[u] = "put"
    /\ put_ok(data_queue)
    /\ data_queue' = put(put(data_queue, GameData(u)), GameData(u))
    /\ pc' = [pc EXCEPT ![u] = "r_release"]
    /\ UNCHANGED <<extVars, poolVars, seen, rel, rwlock, model, popped, updVars, rcvVars>>

\* selfplay_wrapper that drops the history instead of queueing it.
PutDataLost(u) ==
    /\ pc[u] = "put"
    /\ pc' = [pc EXCEPT ![u] = "r_release"]
    /\ UNCHANGED <<extVars, poolVars, seen, rel, rwlock, model, data_queue, popped, updVars, rcvVars>>

PutData(u) ==
    /\ pc[u] = "put"
    /\ put_ok(data_queue)
    /\ data_queue' = put(data_queue, GameData(u))
    /\ pc' = [pc EXCEPT ![u] = "r_release"]
    /\ UNCHANGED <<extVars, poolVars, seen, rel, rwlock, model, popped, updVars, rcvVars>>

ReleaseRead(u) ==
    /\ pc[u] = "r_release"
    /\ rwlock' = r_release(rwlock)
    /\ rel' = [rel EXCEPT ![u].read = @ + 1]
    /\ pc' = [pc EXCEPT ![u] = "release"]
    /\ UNCHANGED <<extVars, poolVars, seen, model, data_queue, popped, updVars, rcvVars>>

ReleaseSlot(u) ==
    /\ pc[u] = "release"
    /\ worker_lim' = worker_lim + 1
    /\ rel' = [rel EXCEPT ![u].slot = @ + 1]
    /\ pc' = [pc EXCEPT ![u] = "done"]
    /\ UNCHANGED <<extVars, cnt, seen, rwlock, model, data_queue, popped, updVars, rcvVars>>

\* ------------------------------------------------------------ consumer
Pop ==
    /\ get_ok(data_queue)
    /\ popped' = Append(popped, Head(data_queue))
    /\ data_queue' = Tail(data_queue)
    /\ UNCHANGED <<extVars, poolVars, unitVars, rwlock, model, updVars, rcvVars>>

\* ------------------------------------------------------------ control channel
\* The sender of r_conn announces the next model: identifiers 1, 2, ...
Emit(updates) ==
    /\ emitted < updates
    /\ emitted' = emitted + 1
    /\ r_conn' = Append(r_conn, emitted + 1)
    /\ UNCHANGED <<extVars, poolVars, unitVars, rwlock, model, data_queue, popped,
                   upd, notified, loads, rcvVars>>

\* ------------------------------------------------------------ model_update_handler
\* path = self.r_conn.recv(), and the for statement creates the iterator
\* over remote_worker_reg.items().
UpdRecv ==
    /\ upd.pc = "recv"
    /\ Len(r_conn) > 0
    /\ upd' = [pc |-> "iter", path |-> Head(r_conn), idx |-> 0,
               size |-> Len(remote_worker_reg), exc |-> "none"]
    /\ r_conn' = Tail(r_conn)
    /\ UNCHANGED <<extVars, poolVars, unitVars, rwlock, model, data_queue, popped,
                   emitted, notified, loads, rcvVars>>

\* The next entry of the registry: Remote_Queue(addr, port).put(path) sends it.
UpdNotify ==
    /\ upd.pc = "iter"
    /\ Len(remote_worker_reg) = upd.size
    /\ upd.idx < upd.size
    /\ notified' = Append(notified, <<remote_worker_reg[upd.idx + 1], upd.path>>)
    /\ upd' = [upd EXCEPT !.idx = @ + 1]
    /\ UNCHANGED <<extVars, poolVars, unitVars, rwlock, model, data_queue, popped,
                   r_conn, emitted, loads, rcvVars>>

\* The remote session cannot be reached: the exception ends the thread.
UpdNotifyFail ==
    /\ upd.pc = "iter"
    /\ Len(remote_worker_reg) = upd.size
    /\ upd.idx < upd.size
    /\ upd' = [upd EXCEPT !.pc = "dead", !.exc = "unreachable"]
    /\ UNCHANGED <<extVars, poolVars, unitVars, rwlock, model, data_queue, popped,
                   r_conn, emitted, notified, loads, rcvVars>>

\* The registry grew during the loop: the dict iterator raises RuntimeError.
UpdIterError ==
    /\ upd.pc = "iter"
    /\ Len(remote_worker_reg) # upd.size
    /\ upd' = [upd EXCEPT !.pc = "dead", !.exc = "changed size"]
    /\ UNCHANGED <<extVars, poolVars, unitVars, rwlock, model, data_queue, popped,
                   r_conn, emitted, notified, loads, rcvVars>>

\* A handler that calls load without waiting for the end of the loop.
UpdLoadEarly ==
    /\ upd.pc = "iter"
    /\ Len(remote_worker_reg) = upd.size
    /\ upd' = [upd EXCEPT !.pc = "load"]
    /\ loads' = Append(loads, upd.path)
    /\ UNCHANGED <<extVars, poolVars, unitVars, rwlock, model, data_queue, popped,
                   r_conn, emitted, notified, rcvVars>>

\* The loop is exhausted: self.nn_eval.load(path) begins.
UpdIterEnd ==
    /\ upd.pc = "iter"
    /\ Len(remote_worker_reg) = upd.size
    /\ upd.idx = upd.size
    /\ upd' = [upd EXCEPT !.pc = "load"]
    /\ loads' = Append(loads, upd.path)
    /\ UNCHANGED <<extVars, poolVars, unitVars, rwlock, model, data_queue, popped,
                   r_conn, emitted, notified, rcvVars>>

\* ------------------------------------------------------------ NNEvaluator.load
LoadAcquire ==
    /\ upd.pc = "load"
    /\ w_acquire_ok(rwlock)
    /\ rwlock' = w_acquire(rwlock)
    /\ upd' = [upd EXCEPT !.pc = "swap"]
    /\ UNCHANGED <<extVars, poolVars, unitVars, model, data_queue, popped,
                   r_conn, emitted, notified, loads, rcvVars>>

LoadSwap ==
    /\ upd.pc = "swap"
    /\ model' = upd.path
    /\ rwlock' = w_release(rwlock)
    /\ upd' = [upd EXCEPT !.pc = "recv"]
    /\ UNCHANGED <<extVars, poolVars, unitVars, data_queue, popped,
                   r_conn, emitted, notified, loads, rcvVars>>

\* ------------------------------------------------------------ rcv_remote_data_handler
\* An accept that does not wait for the put of the frame in hand.
RcvAcceptEager(addr, conns) ==
    /\ rcv.pc \in {"accept", "put"}
    /\ frames < conns
    /\ frames' = frames + 1
    /\ rcv' = [pc |-> "put", addr |-> addr, image |-> RemoteData(frames + 1)]
    /\ heard' = heard \cup {addr}
    /\ UNCHANGED <<extVars, poolVars, unitVars, rwlock, model, data_queue, popped,
                   updVars, remote_worker_reg>>

\* accept, drain to EOF, pickle.loads, close.
RcvAccept(addr, conns) ==
    /\ rcv.pc = "accept"
    /\ frames < conns
    /\ frames' = frames + 1
    /\ rcv' = [pc |-> "put", addr |-> addr, image |-> RemoteData(frames + 1)]
    /\ heard' = heard \cup {addr}
    /\ UNCHANGED <<extVars, poolVars, unitVars, rwlock, model, data_queue, popped,
                   updVars, remote_worker_reg>>

\* pickle.loads raises on the bytes received: the exception ends the thread.
RcvBadFrame(addr, conns) ==
    /\ rcv.pc = "accept"
    /\ frames < conns
    /\ frames' = frames + 1
    /\ rcv' = [pc |-> "dead", addr |-> NoAddr, image |-> NoImage]
    /\ heard' = heard \cup {addr}
    /\ UNCHANGED <<extVars, poolVars, unitVars, rwlock, model, data_queue, popped,
                   updVars, remote_worker_reg>>

RcvPut ==
    /\ rcv.pc = "put"
    /\ put_ok(data_queue)
    /\ data_queue' = put(data_queue, rcv.image)
    /\ rcv' = [rcv EXCEPT !.pc = "reg"]
    /\ UNCHANGED <<extVars, poolVars, unitVars, rwlock, model, popped,
                   updVars, remote_worker_reg, frames, heard>>

Registered(reg, addr) == \E i \in 1..Len(reg) : reg[i] = addr

\* The registry as a list that takes the address of every frame.
RcvRegisterEveryFrame ==
    /\ rcv.pc = "reg"
    /\ remote_worker_reg' = Append(remote_worker_reg, rcv.addr)
    /\ rcv' = [pc |-> "accept", addr |-> NoAddr, image |-> NoImage]
    /\ UNCHANGED <<extVars, poolVars, unitVars, rwlock, model, data_queue, popped,
                   updVars, frames, heard>>

RcvRegister ==
    /\ rcv.pc = "reg"
    /\ remote_worker_reg' = IF Registered(remote_worker_reg, rcv.addr)
                            THEN remote_worker_reg
                            ELSE Append(remote_worker_reg, rcv.addr)
    /\ rcv' = [pc |-> "accept", addr |-> NoAddr, image |-> NoImage]
    /\ UNCHANGED <<extVars, poolVars, unitVars, rwlock, model, data_queue, popped,
                   updVars, frames, heard>>

\* ------------------------------------------------------------ remote_update_handler
\* The frames the master session has sent to the remote session, in order.
Inbound == SelectSeq(notified, LAMBDA n : n[1] = RemoteAddr)

\* accept, drain to EOF, pickle.loads, close.
RupdAccept ==
    /\ rupd.pc = "accept"
    /\ rframes < Len(Inbound)
    /\ rframes' = rframes + 1
    /\ rupd' = [rupd EXCEPT !.pc = "load", !.image = Inbound[rframes + 1][2]]
    /\ UNCHANGED <<masterVars, wireVars, evalVars, gameVars>>

\* pickle.loads raises on the bytes received: the exception ends the thread.
RupdBadFrame ==
    /\ rupd.pc = "accept"
    /\ rframes < Len(Inbound)
    /\ rframes' = rframes + 1
    /\ rupd' = [rupd EXCEPT !.pc = "dead"]
    /\ UNCHANGED <<masterVars, wireVars, evalVars, gameVars>>

\* self.nn_eval.load(final_image) on the remote session's evaluator.
RupdLoad ==
    /\ rupd.pc = "load"
    /\ rupd' = [rupd EXCEPT !.pc = "accept", !.model = rupd.image]
    /\ UNCHANGED <<masterVars, wireVars, evalVars, gameVars, rframes>>

\* ------------------------------------------------------------ one connection
\* Remote_Queue.put: connect, write the serialized value, close.
WireConnect(v) ==
    /\ sender.pc = "idle"
    /\ accepted + (IF receiver.pc = "accept" THEN 0 ELSE 1) < WireConns
    /\ sender' = [pc |-> "sending", value |-> v, unsent |-> Encode(v)]
    /\ UNCHANGED <<masterVars, remoteVars, evalVars, gameVars, channel, receiver, accepted, delivered>>

WireWrite(k) ==
    /\ sender.pc = "sending"
    /\ k \in 1..Len(sender.unsent)
    /\ channel' = channel \o SubSeq(sender.unsent, 1, k)
    /\ sender' = [sender EXCEPT !.unsent = SubSeq(@, k + 1, Len(@))]
    /\ UNCHANGED <<masterVars, remoteVars, evalVars, gameVars, receiver, accepted, delivered>>

WireClose ==
    /\ sender.pc = "sending"
    /\ sender.unsent = <<>>
    /\ sender' = [sender EXCEPT !.pc = "closed"]
    /\ UNCHANGED <<masterVars, remoteVars, evalVars, gameVars, channel, receiver, accepted, delivered>>

\* server_socket.accept(); ultimate_buffer = b''
RxAccept ==
    /\ receiver.pc = "accept"
    /\ sender.pc \in {"sending", "closed"}
    /\ accepted' = accepted + 1
    /\ receiver' = [pc |-> "recv", ultimate_buffer |-> <<>>, final_image |-> NoValue]
    /\ UNCHANGED <<masterVars, remoteVars, evalVars, gameVars, sender, channel, delivered>>

\* A recv that returns the last bytes only.
RxRecvOverwrite(k) ==
    /\ receiver.pc = "recv"
    /\ k \in 1..RecvSize
    /\ k <= Len(channel)
    /\ receiver' = [receiver EXCEPT !.ultimate_buffer = SubSeq(channel, 1, k)]
    /\ channel' = SubSeq(channel, k + 1, Len(channel))
    /\ UNCHANGED <<masterVars, remoteVars, evalVars, gameVars, sender, accepted, delivered>>

\* receiving_buffer = client_connection.recv(2 ** 20) returns some of the
\* bytes that have arrived; ultimate_buffer += receiving_buffer.
RxRecv(k) ==
    /\ receiver.pc = "recv"
    /\ k \in 1..RecvSize
    /\ k <= Len(channel)
    /\ receiver' = [receiver EXCEPT
                      !.ultimate_buffer = @ \o SubSeq(channel, 1, k)]
    /\ channel' = SubSeq(channel, k + 1, Len(channel))
    /\ UNCHANGED <<masterVars, remoteVars, evalVars, gameVars, sender, accepted, delivered>>

\* recv returns b'' at EOF: break, final_image = pickle.loads(ultimate_buffer).
RxEof ==
    /\ receiver.pc = "recv"
    /\ channel = <<>>
    /\ sender.pc = "closed"
    /\ receiver' = [receiver EXCEPT
                      !.pc = IF Decode(receiver.ultimate_buffer) = NoValue
                             THEN "dead" ELSE "deliver",
                      !.final_image = Decode(receiver.ultimate_buffer)]
    /\ UNCHANGED <<masterVars, remoteVars, evalVars, gameVars, sender, channel, accepted, delivered>>

\* client_connection.close(), and the value is handed on (put or load).
RxDeliver ==
    /\ receiver.pc = "deliver"
    /\ delivered' = delivered + 1
    /\ receiver' = [receiver EXCEPT !.pc = "accept"]
    /\ sender' = [sender EXCEPT !.pc = "idle"]
    /\ UNCHANGED <<masterVars, remoteVars, evalVars, gameVars, channel, accepted>>

\* ------------------------------------------------------------ NNEvaluator.submit
\* Under the mutex the request joins the pending requests; the context that
\* makes their count reach max_batch_size detaches them as its batch.
Submit(c, x) ==
    /\ caller[c].pc = "idle"
    /\ caller' = [caller EXCEPT ![c] = [pc |-> "waiting", input |-> x,
                                        result |-> NoResult]]
    /\ LET p == Append(pending, [caller |-> c, input |-> x]) IN
         IF Len(p) >= MaxBatch
         THEN pending' = <<>> /\ inflight' = [inflight EXCEPT ![c] = Batch(p)]
         ELSE pending' = p /\ UNCHANGED inflight
    /\ UNCHANGED <<masterVars, remoteVars, wireVars, gameVars, calls>>

\* A timer that detaches the pending requests even when there are none.
TimerFlushEmpty ==
    /\ ~inflight[Timer].busy
    /\ inflight' = [inflight EXCEPT ![Timer] = Batch(pending)]
    /\ pending' = <<>>
    /\ UNCHANGED <<masterVars, remoteVars, wireVars, gameVars, caller, calls>>

\* A timer that detaches the oldest pending request only.
TimerFlushOldest ==
    /\ ~inflight[Timer].busy
    /\ Len(pending) > 0
    /\ inflight' = [inflight EXCEPT ![Timer] = Batch(<<Head(pending)>>)]
    /\ pending' = Tail(pending)
    /\ UNCHANGED <<masterVars, remoteVars, wireVars, gameVars, caller, calls>>

\* The timeout has elapsed: under the mutex the timer detaches whatever is
\* pending as its batch; with nothing pending it dispatches nothing.
TimerFlush ==
    /\ ~inflight[Timer].busy
    /\ Len(pending) > 0
    /\ inflight' = [inflight EXCEPT ![Timer] = Batch(pending)]
    /\ pending' = <<>>
    /\ UNCHANGED <<masterVars, remoteVars, wireVars, gameVars, caller, calls>>

\* The slices handed out from the other end of the output.
DispatchReversed(f) ==
    /\ inflight[f].busy
    /\ r_acquire_ok(rwlock)
    /\ LET reqs == inflight[f].reqs
           out  == Infer(reqs)
       IN caller' = [c \in Callers |->
               IF \E i \in 1..Len(reqs) : reqs[i].caller = c
               THEN [caller[c] EXCEPT
                       !.pc = "answered",
                       !.result = out[Len(reqs) + 1 -
                           (CHOOSE i \in 1..Len(reqs) : reqs[i].caller = c)]]
               ELSE caller[c]]
    /\ inflight' = [inflight EXCEPT ![f] = NoBatch]
    /\ calls' = calls + 1
    /\ UNCHANGED <<masterVars, remoteVars, wireVars, gameVars, pending>>

\* The flushing context scores its batch under the read side of the lock, in
\* one inference call, and unblocks each request with the slice at its position.
Dispatch(f) ==
    /\ inflight[f].busy
    /\ r_acquire_ok(rwlock)
    /\ LET reqs == inflight[f].reqs
           out  == Infer(reqs)
       IN caller' = [c \in Callers |->
               IF \E i \in 1..Len(reqs) : reqs[i].caller = c
               THEN [caller[c] EXCEPT
                       !.pc = "answered",
                       !.result = out[CHOOSE i \in 1..Len(reqs) :
                                          reqs[i].caller = c]]
               ELSE caller[c]]
    /\ inflight' = [inflight EXCEPT ![f] = NoBatch]
    /\ calls' = calls + 1
    /\ UNCHANGED <<masterVars, remoteVars, wireVars, gameVars, pending>>

\* submit returns its result to the caller.
Return(c) ==
    /\ caller[c].pc = "answered"
    /\ caller' = [caller EXCEPT ![c].pc = "done"]
    /\ UNCHANGED <<masterVars, remoteVars, wireVars, gameVars, pending, inflight, calls>>

\* ------------------------------------------------------------ GameState.do_move
\* A call of do_move on the game; at most GameMoves stones are played.
DoMove(action, color) ==
    /\ is_legal(game, action) => game.turns < GameMoves
    /\ game' = do_move(game, action, color).state
    /\ raised' = do_move(game, action, color).raised
    /\ UNCHANGED <<masterVars, remoteVars, wireVars, evalVars>>

\* ------------------------------------------------------------ processes
UnitStep(u) ==
    \/ StartGame(u)
    \/ FinishGame(u)
    \/ FailGame(u)
    \/ PutData(u)
    \/ ReleaseRead(u)
    \/ ReleaseSlot(u)

UpdStep ==
    \/ UpdRecv
    \/ UpdNotify
    \/ UpdNotifyFail
    \/ UpdIterError
    \/ UpdIterEnd
    \/ LoadAcquire
    \/ LoadSwap

RcvStep ==
    \/ RcvPut
    \/ RcvRegister

\* ------------------------------------------------------------ the master session
Next ==
    \/ Launch(MaxGames)
    \/ \E u \in Units : StartGame(u)
    \/ \E u \in Units : FinishGame(u)
    \/ \E u \in Units : FailGame(u)
    \/ \E u \in Units : PutData(u)
    \/ \E u \in Units : ReleaseRead(u)
    \/ \E u \in Units : ReleaseSlot(u)
    \/ Pop
    \/ Emit(MaxUpdates)
    \/ UpdRecv
    \/ UpdNotify
    \/ UpdNotifyFail
    \/ UpdIterError
    \/ UpdIterEnd
    \/ LoadAcquire
    \/ LoadSwap
    \/ \E a \in Addrs : RcvAccept(a, MaxFrames)
    \/ \E a \in Addrs : RcvBadFrame(a, MaxFrames)
    \/ RcvPut
    \/ RcvRegister

Spec == Init /\ [][Next]_vars

\* ------------------------------------------------------------ pool and evaluator
\* The master session while no remote session connects: the launcher, the
\* units, the training loop, the control channel and the model-update handler.
PoolNext ==
    \/ Launch(MaxGames)
    \/ \E u \in Units : StartGame(u)
    \/ \E u \in Units : FinishGame(u)
    \/ \E u \in Units : FailGame(u)
    \/ \E u \in Units : PutData(u)
    \/ \E u \in Units : ReleaseRead(u)
    \/ \E u \in Units : ReleaseSlot(u)
    \/ Pop
    \/ Emit(MaxUpdates)
    \/ UpdRecv
    \/ UpdIterEnd
    \/ LoadAcquire
    \/ LoadSwap

PoolSpec == Init /\ [][PoolNext]_vars

\* Every process that can take a step is scheduled; when models are
\* announced and whether a game raises is left open.
FairPoolSpec ==
    /\ PoolSpec
    /\ WF_vars(Launch(MaxGames))
    /\ \A u \in Units : WF_vars(UnitStep(u))
    /\ WF_vars(Pop)
    /\ WF_vars(UpdStep)

\* ------------------------------------------------------------ pipeline
\* The producers and the consumer of the data queue while no model is
\* announced: the launcher, the units, the remote-data handler, the training loop.
PipeNext ==
    \/ Launch(PipeGames)
    \/ \E u \in Units : StartGame(u)
    \/ \E u \in Units : FinishGame(u)
    \/ \E u \in Units : FailGame(u)
    \/ \E u \in Units : PutData(u)
    \/ \E u \in Units : ReleaseRead(u)
    \/ \E u \in Units : ReleaseSlot(u)
    \/ Pop
    \/ \E a \in Addrs : RcvAccept(a, MaxFrames)
    \/ \E a \in Addrs : RcvBadFrame(a, MaxFrames)
    \/ RcvPut
    \/ RcvRegister

PipeSpec == Init /\ [][PipeNext]_vars

\* The same with fewer games, for the properties of whole behaviours.
FairPipeNext ==
    \/ Launch(FairPipeGames)
    \/ \E u \in Units : StartGame(u)
    \/ \E u \in Units : FinishGame(u)
    \/ \E u \in Units : FailGame(u)
    \/ \E u \in Units : PutData(u)
    \/ \E u \in Units : ReleaseRead(u)
    \/ \E u \in Units : ReleaseSlot(u)
    \/ Pop
    \/ \E a \in Addrs : RcvAccept(a, MaxFrames)
    \/ \E a \in Addrs : RcvBadFrame(a, MaxFrames)
    \/ RcvPut
    \/ RcvRegister

FairPipeSpec ==
    /\ Init /\ [][FairPipeNext]_vars
    /\ WF_vars(Launch(FairPipeGames))
    /\ \A u \in Units : WF_vars(UnitStep(u))
    /\ WF_vars(Pop)
    /\ WF_vars(RcvStep)

\* ------------------------------------------------------------ scenario
\* ScenarioGames units are launched; the game of the unit in FailingUnits
\* raises as soon as it has begun, every other game returns.
ScenarioNext ==
    \/ Launch(ScenarioGames)
    \/ \E u \in Units : StartGame(u)
    \/ \E u \in Units \ FailingUnits : FinishGame(u)
    \/ \E u \in FailingUnits : FailGame(u)
    \/ \E u \in Units : PutData(u)
    \/ \E u \in Units : ReleaseRead(u)
    \/ \E u \in Units : ReleaseSlot(u)
    \/ Pop

ScenarioSpec == Init /\ [][ScenarioNext]_vars

FairScenarioSpec ==
    /\ ScenarioSpec
    /\ WF_vars(Launch(ScenarioGames))
    /\ \A u \in Units : WF_vars(UnitStep(u))
    /\ WF_vars(Pop)

\* ------------------------------------------------------------ handler threads
\* The threads run() starts in a master session, with the control channel,
\* the remote sessions that connect and the training loop; no game is played.
BroadcastNext ==
    \/ Emit(BroadcastUpdates)
    \/ UpdRecv
    \/ UpdNotify
    \/ UpdNotifyFail
    \/ UpdIterError
    \/ UpdIterEnd
    \/ LoadAcquire
    \/ LoadSwap
    \/ \E a \in Addrs : RcvAccept(a, BroadcastFrames)
    \/ \E a \in Addrs : RcvBadFrame(a, BroadcastFrames)
    \/ RcvPut
    \/ RcvRegister
    \/ Pop

BroadcastSpec == Init /\ [][BroadcastNext]_vars

\* The same with the handler thread of the remote session at RemoteAddr.
ClusterNext ==
    \/ Emit(BroadcastUpdates)
    \/ UpdRecv
    \/ UpdNotify
    \/ UpdNotifyFail
    \/ UpdIterError
    \/ UpdIterEnd
    \/ LoadAcquire
    \/ LoadSwap
    \/ \E a \in Addrs : RcvAccept(a, BroadcastFrames)
    \/ \E a \in Addrs : RcvBadFrame(a, BroadcastFrames)
    \/ RcvPut
    \/ RcvRegister
    \/ Pop
    \/ RupdAccept
    \/ RupdBadFrame
    \/ RupdLoad

ClusterSpec == Init /\ [][ClusterNext]_vars

\* ------------------------------------------------------------ transport
\* A sender and the accept loop of a handler, one connection after another.
WireNext ==
    \/ \E v \in Values : WireConnect(v)
    \/ \E k \in 1..(WireMoves + 2) : WireWrite(k)
    \/ WireClose
    \/ RxAccept
    \/ \E k \in 1..RecvSize : RxRecv(k)
    \/ RxEof
    \/ RxDeliver

WireSpec == Init /\ [][WireNext]_vars

\* ------------------------------------------------------------ evaluator
\* One evaluator, its timer, and EvalCallers contexts that submit one state each.
EvalNext ==
    \/ \E c \in Callers, x \in States : Submit(c, x)
    \/ TimerFlush
    \/ \E f \in Flushers : Dispatch(f)
    \/ \E c \in Callers : Return(c)

EvalSpec == Init /\ [][EvalNext]_vars

\* The same, each context submitting a state of its own.
FairEvalNext ==
    \/ \E c \in Callers : Submit(c, c)
    \/ TimerFlush
    \/ \E f \in Flushers : Dispatch(f)
    \/ \E c \in Callers : Return(c)

\* The timer fires and a flushing context runs; whether and when a context
\* submits is left open.
FairEvalSpec ==
    /\ Init /\ [][FairEvalNext]_vars
    /\ WF_vars(TimerFlush)
    /\ \A f \in Flushers : WF_vars(Dispatch(f))

\* ------------------------------------------------------------ a game
\* Any sequence of do_move calls on one GameState.
GameNext == \E action \in Positions(game), color \in Colors : DoMove(action, color)

GameSpec == Init /\ [][GameNext]_vars

\* The same calls on a board of one row, which fills within GameMoves stones.
StripSpec == StripInit /\ [][GameNext]_vars

\* ------------------------------------------------------------ observations
Range(q) == {q[i] : i \in 1..Len(q)}

\* The unit's process is running.
Alive(u) == pc[u] \in {"r_acquire", "play", "put", "r_release", "release"}
Running == Cardinality({u \in Units : Alive(u)})
\* The unit is between its r_acquire and its r_release.
InGame(u) == pc[u] \in {"play", "put", "r_release"}
\* The unit's process has ended.
Ended(u) == pc[u] \in {"done", "dead"}
\* The unit's data_queue.put has returned.
HasPut(u) == pc[u] \in {"r_release", "release", "done"}

\* Everything ever put on the data queue, in the order of the puts.
Pushed == popped \o data_queue

\* ------------------------------------------------------------ claims

\* C1: in every reachable state the number of self-play units that were
\* launched and have not finished is at most the worker limit; the launcher
\* takes a slot before each start and cannot start one while none is free.
C1_PoolLimit ==
    /\ worker_lim >= 0
    /\ Running <= NumWorker
    /\ (worker_lim = 0 => ~ENABLED Launch(MaxGames))

\* C1 witness: all slots are taken by running units and the launcher, with
\* games still to start, is blocked.
C1_Witness ==
    /\ Running = NumWorker
    /\ worker_lim = 0
    /\ cnt < MaxGames

\* C2: a unit that has ended, by returning or by an exception in its game,
\* has released its slot exactly once and its read lock exactly once.
C2_ReleasedOnEveryExit ==
    \A u \in Units :
        Ended(u) => rel[u].slot = 1 /\ rel[u].read = 1

\* C3: whenever fewer units are running than the limit allows and the
\* launcher has games left, it eventually starts another unit, however many
\* units have failed.
C3_LauncherKeepsLaunching ==
    \A k \in 0..(MaxGames - 1) :
        (cnt = k /\ Running < NumWorker) ~> (cnt > k)

\* C4: in the scenario (one unit fails at once, the others return) the pool
\* never runs more units than the limit, the failed unit queues nothing, and
\* eventually every other unit's record, and nothing else, has been put on
\* the queue exactly once.
C4_Scenario ==
    /\ [](Running <= NumWorker)
    /\ [](\A u \in FailingUnits : GameData(u) \notin Range(Pushed))
    /\ [](Len(Pushed) <= ScenarioGames - Cardinality(FailingUnits))
    /\ <>[](/\ Len(Pushed) = ScenarioGames - Cardinality(FailingUnits)
            /\ Range(Pushed) = {GameData(u) : u \in (1..ScenarioGames) \ FailingUnits})

\* C4 witness: all units were launched, the failing one is dead, and the
\* records of all the others are on the queue or consumed.
C4_Witness ==
    /\ cnt = ScenarioGames
    /\ \A u \in FailingUnits : pc[u] = "dead"
    /\ Len(Pushed) = ScenarioGames - Cardinality(FailingUnits)

\* C5: the data queue never holds more than its capacity: a put on a full
\* queue does not return before a get.
C5_QueueBounded == Len(data_queue) <= Capacity

\* C5 witness: the queue is full, nothing was consumed yet, and a producer
\* (a unit or the remote-data handler) waits in put.
C5_Witness ==
    /\ Len(data_queue) = Capacity
    /\ popped = <<>>
    /\ \/ \E u \in Units : pc[u] = "put"
       \/ rcv.pc = "put"

\* Records that can exist.
Records == {GameData(u) : u \in Units} \cup {RemoteData(k) : k \in 1..MaxFrames}

\* The record exists: its unit's game has returned, or its frame was unpickled.
Produced(r) ==
    \/ r \in Range(Pushed)
    \/ r.src = "unit" /\ pc[r.id] = "put"
    \/ r.src = "remote" /\ rcv.pc = "put" /\ rcv.image = r

C6_NoLossNoDuplicate ==
    /\ \A i, j \in 1..Len(Pushed) : i # j => Pushed[i] # Pushed[j]
    /\ \A u \in Units : HasPut(u) <=> GameData(u) \in Range(Pushed)
    /\ \A k \in 1..MaxFrames :
          RemoteData(k) \in Range(Pushed)
              => k <= frames /\ ~(rcv.pc = "put" /\ rcv.image = RemoteData(k))

\* C6: every game record is put on the queue exactly once by the unit or
\* frame that produced it, is consumed at most once, and, the consumer
\* being scheduled, every record produced is eventually consumed.
C6_ExactlyOnce ==
    /\ []C6_NoLossNoDuplicate
    /\ \A r \in Records : Produced(r) ~> (r \in Range(popped))

\* C6 witness: records of a unit and of a remote frame have been consumed
\* while another record is still queued.
C6_Witness ==
    /\ \E u \in Units : GameData(u) \in Range(popped)
    /\ \E k \in 1..MaxFrames : RemoteData(k) \in Range(popped)
    /\ Len(data_queue) > 0

\* C7: the records of one producer are consumed in the order it put them:
\* the frames of the remote-data handler leave the queue in the order it
\* accepted them.
C7_FifoPerProducer ==
    \A i, j \in 1..Len(Pushed) :
        (i < j /\ Pushed[i].src = "remote" /\ Pushed[j].src = "remote")
            => Pushed[i].id < Pushed[j].id

\* C7 witness: two remote frames were consumed, and two units' records in
\* the reverse of their launch order.
C7_Witness ==
    /\ \E i, j \in 1..Len(popped) :
          i < j /\ popped[i].src = "remote" /\ popped[j].src = "remote"
    /\ \E i, j \in 1..Len(popped) :
          /\ i < j /\ popped[i].src = "unit" /\ popped[j].src = "unit"
          /\ popped[i].id > popped[j].id

\* C8: from a unit's r_acquire to its r_release the evaluator's active model
\* is the one its game began with.
C8_OneModelPerGame ==
    \A u \in Units : InGame(u) => model = seen[u]

\* C8 witness: a load took effect between games: one game was played with
\* the initial model and a game in progress plays with a later one.
C8_Witness ==
    \E u, v \in Units :
        /\ pc[u] = "done" /\ seen[u] = InitialModel
        /\ InGame(v) /\ seen[v] # InitialModel

\* The units that hold the read side.
Readers == {u \in Units : InGame(u) \/ pc[u] = "dead"}

\* C9: the write side is never held while a read side is held, the read
\* sides held are those of the units in a game, and the active model is
\* always one of the models loaded.
C9_LoadExcludesGames ==
    /\ ~(rwlock.writer /\ rwlock.readers > 0)
    /\ rwlock.readers = Cardinality(Readers)
    /\ rwlock.writer => Readers = {}
    /\ model \in {InitialModel} \cup (1..MaxUpdates)

\* C9 witness: a load holds the write side while a launched unit waits in
\* r_acquire, after an earlier game was played.
C9_Witness ==
    /\ rwlock.writer
    /\ \E u \in Units : pc[u] = "r_acquire"
    /\ \E u \in Units : pc[u] = "done"

\* C10: a load the model-update handler has begun eventually takes effect.
C10_LoadCompletes ==
    \A i \in 1..MaxUpdates :
        (upd.pc = "load" /\ upd.path = i) ~> (model = i)

\* ------------------------------------------------------------ failures of a handler
\* C11: an unreachable registered address does not stop the broadcast: the
\* handler thread survives the failed send, so that it can notify the other
\* addresses, load the model and listen for the next identifier.
C11_UnreachableConfined == upd.exc = "unreachable" => upd.pc # "dead"

\* C12: a frame that cannot be deserialized stops neither listening loop:
\* the remote-data handler and the remote-update handler are both alive
\* after every connection.
C12_BadFrameDiscarded == rcv.pc # "dead" /\ rupd.pc # "dead"

\* ------------------------------------------------------------ the registry
\* C13 as stated: an address is in the registry exactly when a frame has
\* been received from it.
C13_RegisteredIffReceived ==
    \A a \in Addrs : Registered(remote_worker_reg, a) <=> a \in heard

IsPrefix(p, q) == Len(p) <= Len(q) /\ SubSeq(q, 1, Len(p)) = p

\* C13: the registry holds only addresses a frame was received from, each
\* once; the address of a frame is added after the frame was deserialized
\* and pushed to the pipeline, so between two connections the registry is
\* exactly the set of addresses heard; entries are never removed or moved.
C13_RegistryGrows ==
    /\ [](/\ Range(remote_worker_reg) \subseteq heard
          /\ \A i, j \in 1..Len(remote_worker_reg) :
                remote_worker_reg[i] = remote_worker_reg[j] => i = j
          /\ rcv.pc = "accept" => heard = Range(remote_worker_reg)
          /\ rcv.pc \in {"put", "reg"} =>
                heard = Range(remote_worker_reg) \cup {rcv.addr})
    /\ [][IsPrefix(remote_worker_reg, remote_worker_reg')]_vars

\* Three frames from two addresses were handled: two entries.
C13_Witness ==
    /\ frames = BroadcastFrames
    /\ rcv.pc = "accept"
    /\ heard = Addrs
    /\ Len(remote_worker_reg) = Cardinality(Addrs)

\* ------------------------------------------------------------ the transport
\* C14: the value deserialized from the bytes drained to EOF is the value
\* the sender wrote before it closed, whatever the sizes of the pieces the
\* bytes travel in, and each accepted connection delivers one value: the
\* connections delivered and the one in progress are the connections accepted.
C14_FrameRoundTrip ==
    /\ receiver.pc # "dead"
    /\ receiver.pc = "deliver" => receiver.final_image = sender.value
    /\ receiver.pc = "deliver" => receiver.ultimate_buffer = Encode(sender.value)
    /\ accepted = delivered + (IF receiver.pc = "accept" THEN 0 ELSE 1)
    /\ \A v \in Values : Decode(Encode(v)) = v

\* The last connection has brought a GameRecord of WireMoves moves.
C14_Witness ==
    /\ receiver.pc = "deliver"
    /\ delivered = WireConns - 1
    /\ receiver.final_image.kind = "record"
    /\ Len(receiver.final_image.moves) = WireMoves

\* ------------------------------------------------------------ the evaluator
\* C15: a caller that has been answered holds the policy/value pair of its
\* own input, whoever else was in its batch.
C15_OwnSlice ==
    \A c \in Callers :
        caller[c].pc \in {"answered", "done"} =>
            caller[c].result = Score(caller[c].input)

\* A full batch with both states in it has been scored.
C15_Witness ==
    /\ Cardinality({c \in Callers : caller[c].pc = "answered"}) = MaxBatch
    /\ {caller[c].input : c \in Callers} = States \cup {0}
    /\ calls = 1

\* C16: every batch a context has detached for the model holds at least one
\* request and at most max_batch_size, whether the timer or a submit that
\* filled the pending requests detached it, and the two never share a request.
C16_BatchSize ==
    /\ \A f \in Flushers :
          inflight[f].busy =>
              Len(inflight[f].reqs) >= 1 /\ Len(inflight[f].reqs) <= MaxBatch
    /\ Len(pending) < MaxBatch
    /\ \A f, g \in Flushers :
          f # g =>
              {r.caller : r \in Range(inflight[f].reqs)} \cap
              {r.caller : r \in Range(inflight[g].reqs)} = {}

\* The timer and a submitting context hold a batch each.
C16_Witness ==
    /\ inflight[Timer].busy
    /\ \E c \in Callers :
          inflight[c].busy /\ Len(inflight[c].reqs) = MaxBatch

\* C17: a waiting caller is eventually answered, with a result that is not
\* empty; a timer flush takes everything that is pending as one batch, so
\* that MaxBatch - 1 requests with no further one are answered by one call.
C17_Answered ==
    /\ \A c \in Callers :
          (caller[c].pc = "waiting") ~> (caller[c].pc = "answered")
    /\ [](\A c \in Callers :
            caller[c].pc = "answered" => caller[c].result # NoResult)
    /\ [][inflight'[Timer] # inflight[Timer] /\ inflight'[Timer].busy =>
            inflight'[Timer].reqs = pending /\ pending' = <<>>]_vars
    /\ [](\A c \in Callers :
            caller[c].pc = "waiting" =>
                \/ \E i \in 1..Len(pending) : pending[i].caller = c
                \/ \E f \in Flushers :
                      \E i \in 1..Len(inflight[f].reqs) :
                          inflight[f].reqs[i].caller = c)

\* MaxBatch - 1 callers submitted and no other: one call answered them all.
C17_Witness ==
    /\ Cardinality({c \in Callers : caller[c].pc = "answered"}) = MaxBatch - 1
    /\ Cardinality({c \in Callers : caller[c].pc = "idle"}) = EvalCallers - MaxBatch + 1
    /\ calls = 1
    /\ ~inflight[Timer].busy /\ pending = <<>>

\* ------------------------------------------------------------ the control channel
\* The identifiers the handler has taken from r_conn, in order.
Received == [i \in 1..(emitted - Len(r_conn)) |-> i]

\* C18: the load calls of the handler are the identifiers it has received,
\* in arrival order, one call each: the calls are a prefix of the identifiers
\* received, complete unless the handler is sending the last one out, and
\* when it waits for the next identifier the active model is the last one.
C18_LoadsInArrivalOrder ==
    /\ IsPrefix(loads, Received)
    /\ upd.pc # "iter" => loads = Received
    /\ upd.pc = "recv" /\ loads # <<>> => model = loads[Len(loads)]

\* ------------------------------------------------------------ the broadcast
\* The addresses the identifier p was sent to, in the order of the sends.
SentTo(p) ==
    LET q == SelectSeq(notified, LAMBDA n : n[2] = p)
    IN [i \in 1..Len(q) |-> q[i][1]]

\* C20: while the handler sends an identifier out it has not called load for
\* it and has sent it once to each entry of the registry it has passed; at
\* the call of load the identifier has been sent exactly once to every
\* address of the registry; no send of an identifier follows its load.
C20_NotifyThenLoad ==
    /\ [](upd.pc = "iter" =>
            /\ upd.path \notin Range(loads)
            /\ upd.idx <= Len(remote_worker_reg)
            /\ SentTo(upd.path) = SubSeq(remote_worker_reg, 1, upd.idx))
    /\ [](upd.pc \in {"load", "swap"} =>
            /\ upd.path \in Range(loads)
            /\ SentTo(upd.path) = SubSeq(remote_worker_reg, 1, upd.size))
    /\ [][loads' # loads =>
            SentTo(loads'[Len(loads')]) = remote_worker_reg]_vars
    /\ [][\A p \in Range(loads) : SentTo(p)' = SentTo(p)]_vars

\* load is called for an identifier that went to every known address.
C20_Witness ==
    /\ upd.pc = "load"
    /\ Len(remote_worker_reg) = Cardinality(Addrs)
    /\ Range(SentTo(upd.path)) = Addrs

\* ------------------------------------------------------------ the game
\* C19: on every state a game reaches, do_move with an action off the board
\* or on an occupied cell raises IllegalMove and leaves every attribute as it
\* was, whatever color is passed; with a legal action it does not raise.
C19_IllegalMoveUnchanged ==
    \A action \in Positions(game), color \in Colors :
        LET r == do_move(game, action, color)
            illegal == \/ ~_on_board(game, action)
                       \/ game.board[action[1]][action[2]] # EMPTY
        IN /\ r.raised <=> illegal
           /\ illegal => r.state = game

\* An illegal call was made on a game with a stone on its board, and a color
\* other than the player to move can be passed for the occupied cell.
C19_Witness ==
    /\ raised
    /\ game.turns > 0
    /\ \E action \in Positions(game) :
          /\ _on_board(game, action)
          /\ game.board[action[1]][action[2]] = game.current_player

\* ------------------------------------------------------------ serial handlers
\* The frames of remote sessions that were put into the data queue, in order.
RemotePushed == SelectSeq(Pushed, LAMBDA r : r.src = "remote")

\* C21: a handler has at most one frame in hand and accepts the next
\* connection only when that frame is processed: the frames put into the
\* queue are the accepted ones in the order of acceptance, all but the one in
\* hand; the remote session has loaded the last frame it accepted, or holds
\* it while its model is still the one of the frame before.
C21_OneFrameAtATime ==
    /\ \A i \in 1..Len(RemotePushed) : RemotePushed[i].id = i
    /\ rcv.pc \in {"accept", "reg"} => Len(RemotePushed) = frames
    /\ rcv.pc = "put" =>
          Len(RemotePushed) = frames - 1 /\ rcv.image = RemoteData(frames)
    /\ rcv.pc # "accept" => \A a \in Addrs : ~ENABLED RcvAccept(a, BroadcastFrames)
    /\ rframes <= Len(Inbound)
    /\ rupd.pc = "accept" =>
          rupd.model = (IF rframes = 0 THEN InitialModel ELSE Inbound[rframes][2])
    /\ rupd.pc = "load" =>
          /\ rupd.image = Inbound[rframes][2]
          /\ rupd.model =
                (IF rframes = 1 THEN InitialModel ELSE Inbound[rframes - 1][2])
    /\ rupd.pc # "accept" => ~ENABLED RupdAccept

\* The data handler is blocked on a full queue with a frame in hand while
\* the remote session holds its second frame.
C21_Witness ==
    /\ rcv.pc = "put" /\ frames >= 2 /\ ~put_ok(data_queue)
    /\ rupd.pc = "load" /\ rframes = 2

\* ------------------------------------------------------------ registry and broadcast
\* C22: an address registered while the handler iterates the registry does
\* not make the broadcast fail: the handler thread is never ended by the
\* registry changing under its loop.
C22_RegistrationDuringBroadcast ==
    ~(upd.pc = "dead" /\ upd.exc = "changed size")

\* ------------------------------------------------------------ the outcome of a move
\* The four lines through a cell.
Directions == {<<1, 0>>, <<0, 1>>, <<1, 1>>, <<1, 0 - 1>>}

\* On board b some k consecutive cells of one line through (x, y), the cell
\* itself among them, all hold stones of color c.
LineThrough(s, b, x, y, c) ==
    \E d \in Directions, j \in 0..(s.k - 1) :
        \A i \in 0..(s.k - 1) :
            LET p == <<x + (i - j) * d[1], y + (i - j) * d[2]>>
            IN _on_board(s, p) /\ b[p[1]][p[2]] = c

BoardFull(s) ==
    \A x \in 0..(s.height - 1), y \in 0..(s.width - 1) : s.board[x][y] # EMPTY

\* C23: after a legal do_move by c at (x, y) the game is ended with winner c
\* exactly when the stone completes a line of k stones of c through (x, y);
\* otherwise it is ended with winner 0 exactly when the board is full;
\* otherwise it is not ended; and the player to move is -c.
C23_OutcomeRule ==
    \A action \in Positions(game), color \in Colors :
        is_legal(game, action) =>
            LET c == IF color # NoColor THEN color ELSE game.current_player
                r == do_move(game, action, color).state
                line == LineThrough(r, r.board, action[1], action[2], c)
                full == BoardFull(r)
            IN /\ (r.is_end_of_game /\ r.winner = c) <=> line
               /\ ~line => ((r.is_end_of_game /\ r.winner = 0) <=> full)
               /\ ~line /\ ~full => ~r.is_end_of_game
               /\ r.current_player = 0 - c

\* ------------------------------------------------------------ the state of a game
\* The stones on the board.
Stones(s) ==
    Cardinality({p \in (0..(s.height - 1)) \X (0..(s.width - 1)) :
                    s.board[p[1]][p[2]] # EMPTY})

\* C24: in every state a game reaches, get_winner returns None exactly when
\* the game has not ended, and turns is the number of stones on the board
\* and the length of the action history.
C24_WinnerAndTurns ==
    /\ get_winner(game) = NoWinner <=> ~game.is_end_of_game
    /\ game.turns = Stones(game)
    /\ game.turns = Len(game.history)
    /\ game.is_end_of_game => get_winner(game) \in {BLACK, WHITE, 0}

\* The board filled without a line, a draw, and a call on the full board raised.
C24_Witness ==
    /\ game.is_end_of_game
    /\ get_winner(game) = 0
    /\ game.turns = game.height * game.width
    /\ raised

\* C25: once the game has ended, every further do_move leaves it ended
\* with the winner it had.
C25_OutcomeFinal ==
    game.is_end_of_game =>
        \A action \in Positions(game), color \in Colors :
            LET r == do_move(game, action, color).state
            IN r.is_end_of_game /\ r.winner = game.winner

====
